---- MODULE Spec2Model ----
(***************************************************************************)
(* A model of the calendar backend of gemini_scheduler_app:                *)
(*   - the event store (models/event.py) and the event API (api/event.py), *)
(*   - the reminder scan (services/reminder_service.py),                   *)
(*   - the range query with recurrence expansion                           *)
(*     (services/event_service.py).                                        *)
(*                                                                         *)
(* Instants are whole minutes since an epoch midnight, in UTC.  Python's   *)
(* datetime resolves one microsecond and the model one minute, so the last *)
(* instant of a day, 23:59:59.999999, is minute EndOfDay of that day.      *)
(* A datetime value is a record [t, aware]: its instant and whether it     *)
(* carries tzinfo; the DateTime columns of the store hold naive values and *)
(* are modelled by the instant alone.                                      *)
(***************************************************************************)
EXTENDS Integers, Sequences, FiniteSets, TLC

VARIABLES
    events,        \* the committed rows of table `events`: id -> row
    now,           \* the wall clock read by datetime.utcnow()
    scan_pc,       \* send_event_reminders: "idle" (not running) or "loop"
    scan_now,      \* its local `now`
    events_to_remind, \* its local list of candidates (event ids, as fetched)
    scan_i,        \* index of the next candidate of the for loop
    session_dirty, \* ids whose reminder_sent = True is pending in db.session
    sent_count,    \* its local sent_count
    scan_result,   \* the value the last scan returned
    second,        \* a second process running send_event_reminders: its locals
    outbox,        \* mail transport: id -> number of reminders delivered
    errlog,        \* ids for which "Error sending reminder" was printed
    deleted,       \* ids whose DELETE was answered 200
    response       \* the response of the API request being answered

vars == <<events, now, scan_pc, scan_now, events_to_remind, scan_i,
          session_dirty, sent_count, scan_result, second, outbox, errlog, deleted, response>>

scanVars == <<scan_pc, scan_now, events_to_remind, scan_i, session_dirty,
              sent_count, scan_result, second>>

-----------------------------------------------------------------------------
(* Time constants.                                                         *)

Day == 1440
EndOfDay == 1439
GraceBefore == 10
Lookahead == 60

(* Bounds of the model.                                                    *)

MaxEvents == 2
MaxMails == 3
MaxDay == 4

Users == {1, 2}
EventIds == 1..MaxEvents

-----------------------------------------------------------------------------
(* Recurrence rule column: None (NULL), the empty string, a text rrulestr  *)
(* rejects, or FREQ=DAILY[;INTERVAL=i][;COUNT=n].                          *)

NullRule == [kind |-> "null", interval |-> 0, hasCount |-> FALSE, count |-> 0]
EmptyRule == [kind |-> "empty", interval |-> 0, hasCount |-> FALSE, count |-> 0]
MalformedRule == [kind |-> "malformed", interval |-> 0, hasCount |-> FALSE, count |-> 0]
DailyCount(i, n) == [kind |-> "daily", interval |-> i, hasCount |-> TRUE, count |-> n]
DailyForever(i) == [kind |-> "daily", interval |-> i, hasCount |-> FALSE, count |-> 0]

(* A row of table `events` as the Event constructor call of create_event   *)
(* builds it; reminder_sent takes the column default.                      *)
NewEvent(user, title, start, end, rule) ==
    [user_id |-> user, title |-> title, start_time |-> start, end_time |-> end,
     reminder_sent |-> FALSE, recurrence_rule |-> rule, parent_event_id |-> 0]

Ids == DOMAIN events

Range(s) == {s[k] : k \in DOMAIN s}

(* The orders in which a query without ORDER BY may return a set of rows. *)
Orderings(S) ==
    {s \in [1..Cardinality(S) -> S] : \A a, b \in 1..Cardinality(S) : a # b => s[a] # s[b]}

-----------------------------------------------------------------------------
(* send_event_reminders                                                    *)

reminder_window_start_late(n) == n - GraceBefore + 1
reminder_window_start(n) == n - GraceBefore

reminder_window_end_early(n) == n + Lookahead - 1
reminder_window_end(n) == n + Lookahead

NeedsReminderAnyFlag(e, n) ==
    /\ e.start_time >= reminder_window_start(n)
    /\ e.start_time <= reminder_window_end(n)

(* The filter of the candidate query.                                      *)
NeedsReminder(e, n) ==
    /\ e.start_time >= reminder_window_start(n)
    /\ e.start_time <= reminder_window_end(n)
    /\ e.reminder_sent = FALSE

CandidateIdsAnyFlag(store, n) == {id \in DOMAIN store : NeedsReminderAnyFlag(store[id], n)}

(* Every event row joins a user row: user_id is a non-null foreign key.   *)
CandidateIds(store, n) == {id \in DOMAIN store : NeedsReminder(store[id], n)}

NoReminders == [kind |-> "none", processed |-> 0, sent |-> 0]

SummaryAllSent(p, s) == [kind |-> "summary", processed |-> p, sent |-> p]

Summary(p, s) == [kind |-> "summary", processed |-> p, sent |-> s]

NoResult == [kind |-> "unset", processed |-> 0, sent |-> 0]

CommitNothing(store, dirty) == store

CommitEveryRow(store, dirty) ==
    [id \in DOMAIN store |-> [store[id] EXCEPT !.reminder_sent = TRUE]]

(* db.session.commit(): the pending reminder_sent = True writes reach the  *)
(* store.                                                                  *)
Commit(store, dirty) ==
    [id \in DOMAIN store |->
        IF id \in dirty THEN [store[id] EXCEPT !.reminder_sent = TRUE] ELSE store[id]]

TotalMails == LET RECURSIVE Sum(_)
                  Sum(S) == IF S = {} THEN 0
                            ELSE LET x == CHOOSE y \in S : TRUE
                                 IN outbox[x] + Sum(S \ {x})
              IN Sum(EventIds)

(* Lines 11-43: read the clock, fetch the candidates, return at once when  *)
(* there are none.                                                         *)
ScanStart ==
    /\ scan_pc = "idle"
    /\ \E order \in Orderings(CandidateIds(events, now)) :
        /\ scan_i' = 1
        /\ session_dirty' = {}
        /\ sent_count' = 0
        /\ IF Len(order) = 0
           THEN /\ scan_pc' = "idle"
                /\ scan_now' = 0
                /\ events_to_remind' = <<>>
                /\ scan_result' = NoReminders
           ELSE /\ scan_pc' = "loop"
                /\ scan_now' = now
                /\ events_to_remind' = order
                /\ scan_result' = NoResult
    /\ UNCHANGED <<events, now, second, outbox, errlog, deleted, response>>

StoreAfterSendCommitted(store, id) == [store EXCEPT ![id].reminder_sent = TRUE]

(* The store as the loop body leaves it: the flag is set on the session's  *)
(* object and added to the session, nothing is committed.                  *)
StoreAfterSend(store, id) == store

(* Lines 46-60: one iteration of the for loop.  mail.send either returns   *)
(* or raises; the except clause prints and goes on.                        *)
ScanSend(ok) ==
    /\ scan_pc = "loop"
    /\ scan_i <= Len(events_to_remind)
    /\ ok => TotalMails < MaxMails
    /\ LET id == events_to_remind[scan_i] IN
        IF ok
        THEN /\ outbox' = [outbox EXCEPT ![id] = @ + 1]
             /\ session_dirty' = session_dirty \cup {id}
             /\ sent_count' = sent_count + 1
             /\ events' = StoreAfterSend(events, id)
             /\ UNCHANGED errlog
        ELSE /\ errlog' = errlog \cup {id}
             /\ UNCHANGED <<outbox, session_dirty, sent_count, events>>
    /\ scan_i' = scan_i + 1
    /\ UNCHANGED <<now, scan_pc, scan_now, events_to_remind, scan_result, second, deleted, response>>

(* Lines 62-66: after the loop, one commit when anything was sent, and the *)
(* summary is returned; the locals and the session end with the call.      *)
ScanFinish ==
    /\ scan_pc = "loop"
    /\ scan_i > Len(events_to_remind)
    /\ events' = IF sent_count > 0 THEN Commit(events, session_dirty) ELSE events
    /\ scan_result' = Summary(Len(events_to_remind), sent_count)
    /\ scan_pc' = "idle"
    /\ events_to_remind' = <<>>
    /\ scan_i' = 1
    /\ session_dirty' = {}
    /\ sent_count' = 0
    /\ scan_now' = 0
    /\ UNCHANGED <<now, second, outbox, errlog, deleted, response>>

(* The process running the scan is killed, or the commit raises: the       *)
(* session and its pending writes are gone, the mail already sent is not.  *)
ScanCrash ==
    /\ scan_pc = "loop"
    /\ scan_pc' = "idle"
    /\ events_to_remind' = <<>>
    /\ scan_i' = 1
    /\ session_dirty' = {}
    /\ sent_count' = 0
    /\ scan_result' = NoResult
    /\ scan_now' = 0
    /\ UNCHANGED <<events, now, second, outbox, errlog, deleted, response>>

(* A second process that runs send_event_reminders at the same time, on    *)
(* the same database and with a session of its own: the same three steps   *)
(* on its own locals.                                                      *)
SecondIdle == [pc |-> "idle", events_to_remind |-> <<>>, i |-> 1,
              session_dirty |-> {}, sent_count |-> 0]

SecondStart ==
    /\ second.pc = "idle"
    /\ \E order \in Orderings(CandidateIds(events, now)) :
          second' = IF Len(order) = 0 THEN SecondIdle
                   ELSE [SecondIdle EXCEPT !.pc = "loop", !.events_to_remind = order]
    /\ UNCHANGED <<events, now, scan_pc, scan_now, events_to_remind, scan_i,
                   session_dirty, sent_count, scan_result, outbox, errlog, deleted, response>>

SecondSend(ok) ==
    /\ second.pc = "loop"
    /\ second.i <= Len(second.events_to_remind)
    /\ ok => TotalMails < MaxMails
    /\ LET id == second.events_to_remind[second.i] IN
        IF ok
        THEN /\ outbox' = [outbox EXCEPT ![id] = @ + 1]
             /\ second' = [second EXCEPT !.i = @ + 1,
                                       !.session_dirty = @ \cup {id},
                                       !.sent_count = @ + 1]
             /\ events' = StoreAfterSend(events, id)
             /\ UNCHANGED errlog
        ELSE /\ errlog' = errlog \cup {id}
             /\ second' = [second EXCEPT !.i = @ + 1]
             /\ UNCHANGED <<outbox, events>>
    /\ UNCHANGED <<now, scan_pc, scan_now, events_to_remind, scan_i,
                   session_dirty, sent_count, scan_result, deleted, response>>

SecondFinish ==
    /\ second.pc = "loop"
    /\ second.i > Len(second.events_to_remind)
    /\ events' = IF second.sent_count > 0 THEN Commit(events, second.session_dirty) ELSE events
    /\ second' = SecondIdle
    /\ UNCHANGED <<now, scan_pc, scan_now, events_to_remind, scan_i,
                   session_dirty, sent_count, scan_result, outbox, errlog, deleted, response>>

-----------------------------------------------------------------------------
(* Datetime values, the strings a request carries, and the strings a       *)
(* response carries.                                                       *)

DT(t, aware) == [none |-> FALSE, t |-> t, aware |-> aware]
NoneDT == [none |-> TRUE, t |-> 0, aware |-> FALSE]

(* A value of a DateTime column, as the ORM loads it: naive.               *)
Column(t) == DT(t, FALSE)

(* Request strings: 'YYYY-MM-DD', 'YYYY-MM-DDTHH:MM:SS' (no designator),   *)
(* 'YYYY-MM-DDTHH:MM:SSZ', a missing or empty parameter, and a text no     *)
(* format accepts.                                                         *)
DateStr(d) == [kind |-> "date", t |-> d * Day]
NaiveStr(t) == [kind |-> "naive", t |-> t]
UtcStr(t) == [kind |-> "utc", t |-> t]
MissingStr == [kind |-> "missing", t |-> 0]
InvalidStr == [kind |-> "invalid", t |-> 0]

(* `not dt_str` of Python: None or the empty string.                       *)
IsFalsyStr(str) == str.kind = "missing"

(* event_service.parse_datetime_flexible: 'Z' becomes '+00:00' and parses  *)
(* with %z to an aware datetime; the formats without %z and the date-only  *)
(* format give a naive one, the date-only one at midnight.                 *)
parse_datetime_flexible(str) ==
    CASE str.kind = "missing" -> NoneDT
      [] str.kind = "invalid" -> NoneDT
      [] str.kind = "utc" -> DT(str.t, TRUE)
      [] OTHER -> DT(str.t, FALSE)

(* dt.isoformat() + 'Z': an aware datetime prints its offset, so the text  *)
(* ends '+00:00Z'; a naive one ends 'Z'.                                   *)
IsoZ(dt) == [set |-> TRUE, t |-> dt.t, offset |-> dt.aware]
NoKey == [set |-> FALSE, t |-> 0, offset |-> FALSE]

(* dateutil's isoparse: a zone designator of 7 characters ('+00:00Z') is   *)
(* rejected with ValueError; 'Z' alone gives an aware datetime.            *)
isoparse_raises(str) == str.offset
isoparse(str) == DT(str.t, TRUE)

(* replace(hour=23, minute=59, second=59, microsecond=999999).             *)
EndOfDayOf(t) == (t \div Day) * Day + EndOfDay

(* Event.to_dict() and Event.to_dict(is_occurrence=True, ...).             *)
to_dict(id, e) ==
    [id |-> id, title |-> e.title,
     start_time |-> IsoZ(Column(e.start_time)),
     end_time |-> IsoZ(Column(e.end_time)),
     user_id |-> e.user_id, reminder_sent |-> e.reminder_sent,
     recurrence_rule |-> e.recurrence_rule,
     parent_event_id |-> e.parent_event_id,
     is_occurrence |-> FALSE, series_start_time |-> NoKey]

to_dict_occurrence(id, e, occurrence_start_time, occurrence_end_time) ==
    [to_dict(id, e) EXCEPT
        !.start_time = IsoZ(occurrence_start_time),
        !.end_time = IsoZ(occurrence_end_time),
        !.is_occurrence = TRUE,
        !.series_start_time = IsoZ(Column(e.start_time))]

-----------------------------------------------------------------------------
(* get_events_in_range                                                     *)

(* Lines 126-130: a naive lower bound is taken as UTC; a naive upper bound *)
(* is moved to the end of its day and taken as UTC.                        *)
query_start_dt(str) ==
    LET d == parse_datetime_flexible(str)
    IN IF d.aware THEN d ELSE DT(d.t, TRUE)

query_end_dt(str) ==
    LET d == parse_datetime_flexible(str)
    IN IF d.aware THEN d ELSE DT(EndOfDayOf(d.t), TRUE)

(* Lines 139-149: the filter of the candidate query.  The bound values are *)
(* compared with the columns by their UTC wall-clock text.                 *)
IsPotential(e, user_id, qs, qe) ==
    /\ e.user_id = user_id
    /\ e.parent_event_id = 0
    /\ \/ /\ e.recurrence_rule.kind = "null"
          /\ e.start_time <= qe.t
          /\ e.end_time >= qs.t
       \/ /\ e.recurrence_rule.kind # "null"
          /\ e.start_time <= qe.t

PotentialIds(store, user_id, qs, qe) ==
    {id \in DOMAIN store : IsPotential(store[id], user_id, qs, qe)}

(* Line 150: order_by(Event.start_time.asc()); rows with equal start_time  *)
(* come in any order.                                                      *)
PotentialOrders(store, user_id, qs, qe) ==
    {o \in Orderings(PotentialIds(store, user_id, qs, qe)) :
        \A a, b \in DOMAIN o : a < b => store[o[a]].start_time <= store[o[b]].start_time}

(* `if event.recurrence_rule:` the column is neither None nor ''.          *)
IsTruthyRule(rule) == rule.kind \in {"daily", "malformed"}

(* rrule.rrulestr(text, dtstart=dtstart) raises on a text it cannot parse. *)
rrulestr_raises(rule) == rule.kind = "malformed"

betweenPastWindow(rule, dtstart, after, before) ==
    LET RECURSIVE Walk(_, _)
        Walk(k, acc) ==
            LET i == dtstart + k * rule.interval * Day
            IN IF rule.hasCount /\ k >= rule.count THEN acc
               ELSE IF i > before + Day THEN acc
               ELSE Walk(k + 1, IF i >= after THEN Append(acc, i) ELSE acc)
    IN Walk(0, <<>>)

(* rule.between(after, before, inc=True): dateutil walks the series from   *)
(* dtstart, INTERVAL days apart and at most COUNT long, stops at the first *)
(* instant past `before` and keeps those not earlier than `after`.         *)
between(rule, dtstart, after, before) ==
    LET RECURSIVE Walk(_, _)
        Walk(k, acc) ==
            LET i == dtstart + k * rule.interval * Day
            IN IF rule.hasCount /\ k >= rule.count THEN acc
               ELSE IF i > before THEN acc
               ELSE Walk(k + 1, IF i >= after THEN Append(acc, i) ELSE acc)
    IN Walk(0, <<>>)

Collected(items) == [exc |-> "", items |-> items]
Raised(exc) == [exc |-> exc, items |-> <<>>]

ExpandOccurrencesUnfiltered(id, e, qs, qe) ==
    LET occurrences == between(e.recurrence_rule, e.start_time, qs.t, qe.t)
        event_duration == e.end_time - e.start_time
    IN [k \in 1..Len(occurrences) |->
           to_dict_occurrence(id, e, DT(occurrences[k], TRUE),
                              DT(occurrences[k] + event_duration, TRUE))]

(* Lines 171-191: the occurrences of one master inside the window.         *)
ExpandOccurrences(id, e, qs, qe) ==
    LET occurrences == between(e.recurrence_rule, e.start_time, qs.t, qe.t)
        event_duration == e.end_time - e.start_time
        Keep(occ_start) ==
            /\ occ_start < qe.t
            /\ occ_start + event_duration > qs.t
        kept == SelectSeq(occurrences, Keep)
    IN [k \in 1..Len(kept) |->
           to_dict_occurrence(id, e, DT(kept[k], TRUE), DT(kept[k] + event_duration, TRUE))]

(* Lines 153-195: what one candidate adds to all_events_for_display.  In   *)
(* the except branch the naive column is compared with the aware window    *)
(* bound, which raises TypeError.                                          *)
ExpandEvent(id, e, qs, qe) ==
    IF IsTruthyRule(e.recurrence_rule)
    THEN IF rrulestr_raises(e.recurrence_rule)
         THEN IF Column(e.start_time).aware # qs.aware
              THEN Raised("TypeError")
              ELSE IF e.start_time >= qs.t /\ e.end_time <= qe.t
                   THEN Collected(<<to_dict(id, e)>>)
                   ELSE Collected(<<>>)
         ELSE Collected(ExpandOccurrences(id, e, qs, qe))
    ELSE Collected(<<to_dict(id, e)>>)

(* Lines 152-195: the loop over potential_events; an exception ends it.    *)
ExpandAll(store, potential_events, qs, qe) ==
    LET RECURSIVE Loop(_, _)
        Loop(k, acc) ==
            IF k > Len(potential_events) THEN Collected(acc)
            ELSE LET id == potential_events[k]
                     one == ExpandEvent(id, store[id], qs, qe)
                 IN IF one.exc # "" THEN one
                    ELSE Loop(k + 1, acc \o one.items)
    IN Loop(1, <<>>)

(* list.sort(key=...) is stable: equal keys keep their order.              *)
InsertByStart(sorted, x) ==
    LET pos == Cardinality({k \in DOMAIN sorted : sorted[k].start_time.t <= x.start_time.t})
    IN SubSeq(sorted, 1, pos) \o <<x>> \o SubSeq(sorted, pos + 1, Len(sorted))

StableSortByStart(items) ==
    LET RECURSIVE Sorted(_)
        Sorted(n) == IF n = 0 THEN <<>> ELSE InsertByStart(Sorted(n - 1), items[n])
    IN Sorted(Len(items))

(* Lines 197-200: the key of every element is computed with isoparse,      *)
(* which raises ValueError on the start_time text of an occurrence.        *)
SortForDisplay(items) ==
    IF \E k \in DOMAIN items : isoparse_raises(items[k].start_time)
    THEN Raised("ValueError")
    ELSE Collected(StableSortByStart(items))

(* What the service hands back: the pair ({"error": ...}, 400), a list, or *)
(* an exception.                                                           *)
ErrorTuple == [kind |-> "tuple", exc |-> "", items |-> <<>>]
ServiceList(items) == [kind |-> "list", exc |-> "", items |-> items]
ServiceRaise(exc) == [kind |-> "raise", exc |-> exc, items |-> <<>>]

(* The body of get_events_in_range, given the order in which the candidate *)
(* query returned its rows.                                                *)
get_events_in_range(store, potential_events, start_date_str, end_date_str) ==
    IF IsFalsyStr(start_date_str) \/ IsFalsyStr(end_date_str) THEN ErrorTuple
    ELSE IF parse_datetime_flexible(start_date_str).none
            \/ parse_datetime_flexible(end_date_str).none THEN ErrorTuple
    ELSE LET qs == query_start_dt(start_date_str)
             qe == query_end_dt(end_date_str)
             all_events_for_display == ExpandAll(store, potential_events, qs, qe)
         IN IF all_events_for_display.exc # ""
            THEN ServiceRaise(all_events_for_display.exc)
            ELSE LET sorted == SortForDisplay(all_events_for_display.items)
                 IN IF sorted.exc # "" THEN ServiceRaise(sorted.exc)
                    ELSE ServiceList(sorted.items)

(* The candidate orders of a call; a call rejected before the query has    *)
(* the empty one.                                                          *)
CallOrders(store, user_id, start_date_str, end_date_str) ==
    IF \/ parse_datetime_flexible(start_date_str).none
       \/ parse_datetime_flexible(end_date_str).none
    THEN {<<>>}
    ELSE PotentialOrders(store, user_id, query_start_dt(start_date_str),
                         query_end_dt(end_date_str))

-----------------------------------------------------------------------------
(* The handlers of api/event.py.                                           *)

(* A request: the route, the caller, and what the route reads of the query *)
(* string, the path and the JSON body.  A body key that is absent is       *)
(* MissingStr for a time, "" for the title and has_rule = FALSE for the    *)
(* rule.                                                                   *)
Request(op, user, start, end) ==
    [op |-> op, user |-> user, start |-> start, end |-> end,
     id |-> 0, title |-> "", has_rule |-> FALSE, rule |-> NullRule]
NoRequest == Request("none", 0, MissingStr, MissingStr)
Body(title, start, end, has_rule, rule) ==
    [title |-> title, start |-> start, end |-> end, has_rule |-> has_rule, rule |-> rule]
BodyRequest(op, user, id, body) ==
    [op |-> op, user |-> user, start |-> body.start, end |-> body.end,
     id |-> id, title |-> body.title, has_rule |-> body.has_rule, rule |-> body.rule]

NoResponse == [req |-> NoRequest, status |-> 0, kind |-> "none", exc |-> "", items |-> <<>>]
Http(req, status, kind, exc, items) ==
    [req |-> req, status |-> status, kind |-> kind, exc |-> exc, items |-> items]

(* get_events, lines 82-107: a dict with an 'error' key would be answered  *)
(* 400; the service's error value is a tuple, which is serialised with 200 *)
(* like a list; an exception of the service is Flask's 500.                *)
GetEventsResponse(req, service_response) ==
    CASE service_response.kind = "raise" ->
            Http(req, 500, "exception", service_response.exc, <<>>)
      [] service_response.kind = "tuple" -> Http(req, 200, "error_pair", "", <<>>)
      [] OTHER -> Http(req, 200, "list", "", service_response.items)

GetEvents(user_id, start_date_str, end_date_str) ==
    /\ \E potential_events \in CallOrders(events, user_id, start_date_str, end_date_str) :
          response' = GetEventsResponse(
              Request("get_events", user_id, start_date_str, end_date_str),
              get_events_in_range(events, potential_events, start_date_str, end_date_str))
    /\ UNCHANGED <<events, now, scanVars, outbox, errlog, deleted>>

(* get_event_summary, lines 370-448: a date parameter that is not          *)
(* 'YYYY-MM-DD' is answered 400; without one the date is today's; the      *)
(* events of [date, date] are fetched and, if there are any, summarised by *)
(* the language model, whose call succeeds or reports an error.            *)
SummaryResponse(req, service_response, gemini_ok) ==
    CASE service_response.kind = "raise" ->
            Http(req, 500, "exception", service_response.exc, <<>>)
      [] service_response.kind = "list" /\ service_response.items = <<>> ->
            Http(req, 200, "no_events", "", <<>>)
      [] ~gemini_ok -> Http(req, 500, "gemini_error", "", <<>>)
      [] OTHER -> Http(req, 200, "summary", "", service_response.items)

GetEventSummary(user_id, date_param, gemini_ok) ==
    /\ IF ~IsFalsyStr(date_param) /\ date_param.kind # "date"
       THEN response' = Http(Request("get_event_summary", user_id, date_param, date_param),
                             400, "invalid_date", "", <<>>)
       ELSE LET target_date_str == IF IsFalsyStr(date_param)
                                   THEN DateStr(now \div Day) ELSE date_param
            IN \E potential_events \in
                   CallOrders(events, user_id, target_date_str, target_date_str) :
                 response' = SummaryResponse(
                     Request("get_event_summary", user_id, target_date_str, target_date_str),
                     get_events_in_range(events, potential_events,
                                         target_date_str, target_date_str),
                     gemini_ok)
    /\ UNCHANGED <<events, now, scanVars, outbox, errlog, deleted>>

(* api/event.py parse_datetime: a trailing 'Z' becomes '+00:00' and        *)
(* fromisoformat gives an aware datetime; a text without designator, or a  *)
(* date alone, gives a naive one; any other text gives None.               *)
parse_datetime(str) ==
    CASE str.kind = "missing" -> NoneDT
      [] str.kind = "invalid" -> NoneDT
      [] str.kind = "utc" -> DT(str.t, TRUE)
      [] OTHER -> DT(str.t, FALSE)

(* Event.query.filter_by(id=event_id, user_id=current_user_id).first()     *)
OwnedByAnyone(store, user_id, event_id) == event_id \in DOMAIN store
Owned(store, user_id, event_id) ==
    /\ event_id \in DOMAIN store
    /\ store[event_id].user_id = user_id

NotFound(req) == Http(req, 404, "not_found", "", <<>>)

(* get_event, lines 109-116.                                               *)
GetEvent(user_id, event_id) ==
    /\ LET req == BodyRequest("get_event", user_id, event_id,
                              Body("", MissingStr, MissingStr, FALSE, NullRule))
       IN response' = IF Owned(events, user_id, event_id)
                      THEN Http(req, 200, "event", "", <<to_dict(event_id, events[event_id])>>)
                      ELSE NotFound(req)
    /\ UNCHANGED <<events, now, scanVars, outbox, errlog, deleted>>

(* update_event, lines 125-172: the attributes of the loaded row after the *)
(* body has been applied.  A key that is absent keeps the row's value; a   *)
(* row whose rule is now None or '' gets parent_event_id = None.           *)
UpdatedRowResettingFlag(e, body) ==
    LET rule == IF body.has_rule THEN body.rule ELSE e.recurrence_rule
    IN [e EXCEPT
          !.title = IF body.title = "" THEN e.title ELSE body.title,
          !.start_time = IF IsFalsyStr(body.start) THEN e.start_time
                         ELSE parse_datetime(body.start).t,
          !.end_time = IF IsFalsyStr(body.end) THEN e.end_time
                       ELSE parse_datetime(body.end).t,
          !.reminder_sent = IF IsFalsyStr(body.start) THEN e.reminder_sent ELSE FALSE,
          !.recurrence_rule = rule,
          !.parent_event_id = IF IsTruthyRule(rule) THEN e.parent_event_id ELSE 0]

UpdatedRowIgnoringRule(e, body) ==
    [e EXCEPT
          !.title = IF body.title = "" THEN e.title ELSE body.title,
          !.start_time = IF IsFalsyStr(body.start) THEN e.start_time
                         ELSE parse_datetime(body.start).t,
          !.end_time = IF IsFalsyStr(body.end) THEN e.end_time
                       ELSE parse_datetime(body.end).t]
UpdatedRow(e, body) ==
    LET rule == IF body.has_rule THEN body.rule ELSE e.recurrence_rule
    IN [e EXCEPT
          !.title = IF body.title = "" THEN e.title ELSE body.title,
          !.start_time = IF IsFalsyStr(body.start) THEN e.start_time
                         ELSE parse_datetime(body.start).t,
          !.end_time = IF IsFalsyStr(body.end) THEN e.end_time
                       ELSE parse_datetime(body.end).t,
          !.recurrence_rule = rule,
          !.parent_event_id = IF IsTruthyRule(rule) THEN e.parent_event_id ELSE 0]

(* What update_event has assigned to the loaded object when it returns at  *)
(* line 133 (the title), at line 139 (the title and the start) and at line *)
(* 141 or 142 (the title and both times).                                  *)
TitleAssigned(e, body) ==
    [e EXCEPT !.title = IF body.title = "" THEN e.title ELSE body.title]

StartAssigned(e, body) ==
    [TitleAssigned(e, body) EXCEPT
          !.start_time = IF IsFalsyStr(body.start) THEN e.start_time
                         ELSE parse_datetime(body.start).t]

TimesAssigned(e, body) ==
    [StartAssigned(e, body) EXCEPT
          !.end_time = IF IsFalsyStr(body.end) THEN e.end_time
                       ELSE parse_datetime(body.end).t]

(* A return, or an exception, before db.session.commit() of line 175: the  *)
(* assignments were made to the object of the request's session, which is  *)
(* discarded with the request; the row keeps its columns.                  *)
StoreAfterFlush(store, event_id, pending) == [store EXCEPT ![event_id] = pending]

StoreWithoutCommit(store, event_id, pending) == store

(* update_event, lines 118-176.  The times are validated in the order of   *)
(* the code; `event.end_time < event.start_time` compares the value just   *)
(* parsed with the one loaded from the column when only one of the two is  *)
(* in the body, and a naive and an aware datetime do not compare.  Only    *)
(* the path that reaches line 175 commits.                                 *)
UpdateEvent(user_id, event_id, body) ==
    /\ LET req == BodyRequest("update_event", user_id, event_id, body)
           e == events[event_id]
           start_dt == IF IsFalsyStr(body.start) THEN Column(e.start_time)
                       ELSE parse_datetime(body.start)
           end_dt == IF IsFalsyStr(body.end) THEN Column(e.end_time)
                     ELSE parse_datetime(body.end)
       IN IF ~Owned(events, user_id, event_id)
          THEN response' = NotFound(req) /\ UNCHANGED events
          ELSE IF start_dt.none
          THEN /\ response' = Http(req, 400, "invalid_start", "", <<>>)
               /\ events' = StoreWithoutCommit(events, event_id, TitleAssigned(e, body))
          ELSE IF end_dt.none
          THEN /\ response' = Http(req, 400, "invalid_end", "", <<>>)
               /\ events' = StoreWithoutCommit(events, event_id, StartAssigned(e, body))
          ELSE IF start_dt.aware # end_dt.aware
          THEN /\ response' = Http(req, 500, "exception", "TypeError", <<>>)
               /\ events' = StoreWithoutCommit(events, event_id, TimesAssigned(e, body))
          ELSE IF end_dt.t < start_dt.t
          THEN /\ response' = Http(req, 400, "end_before_start", "", <<>>)
               /\ events' = StoreWithoutCommit(events, event_id, TimesAssigned(e, body))
          ELSE /\ events' = [events EXCEPT ![event_id] = UpdatedRow(e, body)]
               /\ response' = Http(req, 200, "event", "",
                                   <<to_dict(event_id, UpdatedRow(e, body))>>)
    /\ UNCHANGED <<now, scanVars, outbox, errlog, deleted>>

(* db.session.delete(event); db.session.commit(): the row is gone.         *)
StoreKeepingRow(store, event_id) == store
StoreWithout(store, event_id) == [id \in (DOMAIN store) \ {event_id} |-> store[id]]

(* delete_event, lines 178-188.                                            *)
DeleteEvent(user_id, event_id) ==
    /\ LET req == BodyRequest("delete_event", user_id, event_id,
                              Body("", MissingStr, MissingStr, FALSE, NullRule))
       IN IF Owned(events, user_id, event_id)
          THEN /\ events' = StoreWithout(events, event_id)
               /\ deleted' = deleted \cup {event_id}
               /\ response' = Http(req, 200, "deleted", "", <<>>)
          ELSE /\ response' = NotFound(req)
               /\ UNCHANGED <<events, deleted>>
    /\ UNCHANGED <<now, scanVars, outbox, errlog>>

-----------------------------------------------------------------------------
(* The clock and the event API, as the reminder scan sees them.            *)

(* What the users create: user 1 an event from 60 to 90, user 2 one from   *)
(* 70 to 100; the clock passes the instants at which either enters or      *)
(* leaves the reminder window.                                             *)
ScanInputs == {<<1, 60, 90>>, <<2, 70, 100>>}
ClockValues == {0, 70 - Lookahead - 1, 70 - Lookahead, 60 + GraceBefore, 60 + GraceBefore + 1}

Tick ==
    /\ \E t \in ClockValues : t > now /\ now' = t
    /\ UNCHANGED <<events, scanVars, outbox, errlog, deleted, response>>

(* The primary key is an INTEGER PRIMARY KEY without AUTOINCREMENT: a new   *)
(* row gets the largest id in the table plus one.                          *)
NextId(store) ==
    IF DOMAIN store = {} THEN 1
    ELSE (CHOOSE m \in DOMAIN store : \A k \in DOMAIN store : k <= m) + 1

(* create_event with a valid body: one row is added and committed, and     *)
(* the answer is 201 with the row's to_dict().                             *)
CreateEvent(user, title, start, end, rule) ==
    /\ NextId(events) <= MaxEvents
    /\ end >= start
    /\ LET id == NextId(events)
           row == NewEvent(user, title, start, end, rule)
       IN /\ events' = events @@ (id :> row)
          /\ response' = Http(BodyRequest("create_event", user, 0,
                                          Body(title, UtcStr(start), UtcStr(end), TRUE, rule)),
                              201, "event", "", <<to_dict(id, row)>>)
    /\ UNCHANGED <<now, scanVars, outbox, errlog, deleted>>

(* create_event, lines 44-54: the checks a body goes through before a row  *)
(* is made.  "" is a body that passes them; `end_time < start_time` of an  *)
(* aware and a naive datetime raises TypeError.                            *)
create_event_error(body) ==
    CASE body.title = "" \/ IsFalsyStr(body.start) \/ IsFalsyStr(body.end) -> "missing_field"
      [] parse_datetime(body.start).none \/ parse_datetime(body.end).none -> "invalid_datetime"
      [] parse_datetime(body.start).aware # parse_datetime(body.end).aware -> "TypeError"
      [] parse_datetime(body.end).t < parse_datetime(body.start).t -> "end_before_start"
      [] OTHER -> ""

(* create_event with a body that does not pass: 400 with the message of    *)
(* the check, or Flask's 500 for the exception; nothing is added.          *)
CreateEventRejected(user, body) ==
    /\ create_event_error(body) # ""
    /\ LET req == BodyRequest("create_event", user, 0, body)
       IN response' = IF create_event_error(body) = "TypeError"
                      THEN Http(req, 500, "exception", "TypeError", <<>>)
                      ELSE Http(req, 400, create_event_error(body), "", <<>>)
    /\ UNCHANGED <<events, now, scanVars, outbox, errlog, deleted>>

Init ==
    /\ events = <<>>
    /\ now = 0
    /\ scan_pc = "idle"
    /\ scan_now = 0
    /\ events_to_remind = <<>>
    /\ scan_i = 1
    /\ session_dirty = {}
    /\ sent_count = 0
    /\ scan_result = NoResult
    /\ second = SecondIdle
    /\ outbox = [id \in EventIds |-> 0]
    /\ errlog = {}
    /\ deleted = {}
    /\ response = NoResponse

Next ==
    \/ Tick
    \/ \E in \in ScanInputs : CreateEvent(in[1], "a", in[2], in[3], NullRule)
    \/ ScanStart
    \/ \E ok \in BOOLEAN : ScanSend(ok)
    \/ ScanFinish
    \/ ScanCrash

Spec == Init /\ [][Next]_vars

(* Two processes run the scan at the same time, at the instant 0 of the    *)
(* clock; the events the users create start within the hour after it.      *)
TwoScanInputs == {<<1, 60, 90>>, <<2, 50, 80>>}

NextTwoScans ==
    \/ \E in \in TwoScanInputs : CreateEvent(in[1], "a", in[2], in[3], NullRule)
    \/ ScanStart
    \/ \E ok \in BOOLEAN : ScanSend(ok)
    \/ ScanFinish
    \/ SecondStart
    \/ \E ok \in BOOLEAN : SecondSend(ok)
    \/ SecondFinish

SpecTwoScans == Init /\ [][NextTwoScans]_vars


-----------------------------------------------------------------------------
(* The event API under range queries.                                      *)

(* What the users create: user 1 an event from 10:00 to 11:00 of day 1     *)
(* with any of these rule columns, or one from 23:00 of day 1 to 01:00 of  *)
(* day 2, single or daily; user 2 the first event, single.                 *)
QueryRules == {NullRule, EmptyRule, MalformedRule,
               DailyCount(1, 3), DailyCount(2, 2), DailyForever(1)}
QueryInputs ==
    {<<1, Day + 600, Day + 660, rule>> : rule \in QueryRules}
    \cup {<<1, Day + 1380, 2 * Day + 60, rule>> : rule \in {NullRule, DailyCount(1, 3)}}
    \cup {<<2, Day + 600, Day + 660, NullRule>>}

(* The windows the users ask for: whole days, instants with 'Z' at the     *)
(* start and the end of the first event and inside the second, an upper    *)
(* bound with a time of day and no designator, and absent or unparseable   *)
(* bounds.                                                                 *)
QueryDays == 1..MaxDay
QueryInstants == {Day + 600, Day + 660, 2 * Day + 30}
QueryWindows ==
    {<<DateStr(a), DateStr(b)>> : a \in QueryDays, b \in QueryDays}
    \cup {<<UtcStr(a), UtcStr(b)>> : a \in QueryInstants, b \in QueryInstants}
    \cup {<<DateStr(1), NaiveStr(Day + 600)>>, <<DateStr(2), UtcStr(2 * Day + 30)>>,
          <<MissingStr, DateStr(1)>>, <<DateStr(1), MissingStr>>,
          <<InvalidStr, DateStr(1)>>}
OrderedWindows == {w \in QueryWindows : w[1].t <= w[2].t \/ w[2].kind = "missing"}

(* User 1 asks for every window; user 2 for the first day and for all days. *)
QueryCalls ==
    {<<1, w[1], w[2]>> : w \in OrderedWindows}
    \cup {<<2, DateStr(1), DateStr(1)>>, <<2, DateStr(1), DateStr(MaxDay)>>}
SummaryCalls ==
    {<<1, DateStr(d)>> : d \in QueryDays}
    \cup {<<1, MissingStr>>, <<1, InvalidStr>>, <<2, DateStr(1)>>}

NextQuery ==
    \/ \E in \in QueryInputs : CreateEvent(in[1], "a", in[2], in[3], in[4])
    \/ \E c \in QueryCalls : GetEvents(c[1], c[2], c[3])
    \/ \E c \in SummaryCalls, gemini_ok \in BOOLEAN : GetEventSummary(c[1], c[2], gemini_ok)

SpecQuery == Init /\ [][NextQuery]_vars

-----------------------------------------------------------------------------
(* The event API under edits: events are created, read, changed and        *)
(* deleted between range queries.                                          *)

(* User 1 creates the 10:00-11:00 event of day 1, single or daily with     *)
(* three occurrences; user 2 creates it single.                            *)
EditInputs ==
    {<<1, Day + 600, Day + 660, NullRule>>,
     <<1, Day + 600, Day + 660, DailyCount(1, 3)>>,
     <<1, Day + 600, Day + 660, EmptyRule>>,
     <<2, Day + 600, Day + 660, NullRule>>}

(* The bodies of PUT: a new title; a new rule with the event moved to day  *)
(* 2; the rule cleared; a new start alone, after the stored end, with and  *)
(* without the 'Z'; a new title with an unparseable start, with a start    *)
(* and an unparseable end, and with an end before the start.               *)
TitleBody == Body("b", MissingStr, MissingStr, FALSE, NullRule)
EditBodies ==
    {TitleBody,
     Body("", UtcStr(2 * Day + 600), UtcStr(2 * Day + 660), TRUE, DailyCount(2, 2)),
     Body("", MissingStr, MissingStr, TRUE, NullRule),
     Body("", UtcStr(2 * Day + 600), MissingStr, FALSE, NullRule),
     Body("", NaiveStr(2 * Day + 600), MissingStr, FALSE, NullRule),
     Body("b", InvalidStr, MissingStr, FALSE, NullRule),
     Body("b", UtcStr(2 * Day + 600), InvalidStr, FALSE, NullRule),
     Body("b", UtcStr(2 * Day + 600), UtcStr(Day + 660), FALSE, NullRule)}

(* The bodies of POST that are not accepted: no title; an unparseable      *)
(* start; an end before the start; a start with 'Z' and an end without.    *)
RejectedBodies ==
    {Body("", UtcStr(Day + 600), UtcStr(Day + 660), FALSE, NullRule),
     Body("a", InvalidStr, UtcStr(Day + 660), FALSE, NullRule),
     Body("a", UtcStr(Day + 660), UtcStr(Day + 600), FALSE, NullRule),
     Body("a", UtcStr(Day + 600), NaiveStr(Day + 660), FALSE, NullRule)}

(* The ids the requests name, and the windows they ask for.                *)
EditIds == {1, 2}
EditWindows == {<<DateStr(1), DateStr(1)>>, <<DateStr(1), DateStr(MaxDay)>>}

(* User 1 sends every body, user 2 the new title.                          *)
EditCalls ==
    {<<1, id, body>> : id \in EditIds, body \in EditBodies}
    \cup {<<2, id, TitleBody>> : id \in EditIds}

NextEdit ==
    \/ \E in \in EditInputs : CreateEvent(in[1], "a", in[2], in[3], in[4])
    \/ \E body \in RejectedBodies : CreateEventRejected(1, body)
    \/ \E u \in Users, id \in EditIds : GetEvent(u, id)
    \/ \E c \in EditCalls : UpdateEvent(c[1], c[2], c[3])
    \/ \E u \in Users, id \in EditIds : DeleteEvent(u, id)
    \/ \E u \in Users, w \in EditWindows : GetEvents(u, w[1], w[2])

SpecEdit == Init /\ [][NextEdit]_vars

-----------------------------------------------------------------------------
(* The reminder scan over days, with recurring masters and rescheduling.   *)

(* User 1 creates the master of a daily series from 01:00 to 01:30 of day  *)
(* 0, and an event alone at the same time of day 1.                        *)
RescheduleInputs ==
    {<<1, 60, 90, DailyForever(1)>>,
     <<1, Day + 60, Day + 90, NullRule>>}

(* The PUT that moves an event to the same time of day 1.                  *)
MoveBody == Body("", UtcStr(Day + 60), UtcStr(Day + 90), FALSE, NullRule)

(* The scans run at 00:00 of day 0 and of day 1.                           *)
RescheduleClock == {Day}

Advance(t) ==
    /\ t > now
    /\ now' = t
    /\ UNCHANGED <<events, scanVars, outbox, errlog, deleted, response>>

NextReschedule ==
    \/ \E t \in RescheduleClock : Advance(t)
    \/ \E in \in RescheduleInputs : CreateEvent(in[1], "a", in[2], in[3], in[4])
    \/ \E id \in EditIds : UpdateEvent(1, id, MoveBody)
    \/ GetEvents(1, DateStr(0), DateStr(0))
    \/ ScanStart
    \/ \E ok \in BOOLEAN : ScanSend(ok)
    \/ ScanFinish
    \/ ScanCrash

SpecReschedule == Init /\ [][NextReschedule]_vars

-----------------------------------------------------------------------------
(* Properties of the reminder scan.                                        *)

(* The step in which a scan returns its summary (lines 62-66), and the     *)
(* step in which a scan is interrupted.                                    *)
ScanReturns == scan_pc = "loop" /\ scan_pc' = "idle" /\ scan_result'.kind = "summary"
ScanInterrupted == scan_pc = "loop" /\ scan_pc' = "idle" /\ scan_result'.kind = "unset"

Candidates == Range(events_to_remind)

(* C1, as claimed: during a scan every event already notified is stored    *)
(* with reminder_sent = true before the next candidate is attempted.        *)
C1_StoredBeforeNextCandidate ==
    (scan_pc = "loop" /\ scan_i <= Len(events_to_remind)) =>
        \A id \in session_dirty : events[id].reminder_sent

(* C1, amended: the flags of a scan reach the store in one commit after    *)
(* the last candidate.  While the loop runs no candidate is stored as      *)
(* reminded, not even one already notified; a scan that returns stores the *)
(* flag of every event it notified; an interrupted scan stores none.       *)
C1_OneCommitAfterTheLoop ==
    /\ [](scan_pc = "loop" => \A id \in Candidates : ~events[id].reminder_sent)
    /\ [][/\ ScanReturns => \A id \in session_dirty : events'[id].reminder_sent
          /\ ScanInterrupted => events' = events]_vars

(* C1 witness: an event was notified twice, its first scan having been     *)
(* interrupted before the commit.                                          *)
C1_NotifiedAgainAfterInterrupt ==
    \E id \in DOMAIN events : outbox[id] >= 2

(* C2: a failed send does not end the scan: the loop goes on with the next *)
(* candidate and the store is untouched; the scan returns its summary only *)
(* after every candidate was attempted, and then reminder_sent is stored   *)
(* for exactly the candidates whose send succeeded.                        *)
C2_FailureIsolated ==
    [][/\ (errlog' # errlog) =>
            /\ scan_pc' = "loop"
            /\ scan_i' = scan_i + 1
            /\ events' = events
            /\ outbox' = outbox
       /\ \A id \in EventIds :
            (outbox'[id] > outbox[id]) <=> (id \in session_dirty' \ session_dirty)
       /\ ScanReturns =>
            /\ scan_i > Len(events_to_remind)
            /\ scan_result'.processed = Len(events_to_remind)
            /\ \A id \in Candidates :
                 events'[id].reminder_sent <=> id \in session_dirty
            /\ \A id \in DOMAIN events \ Candidates : events'[id] = events[id]]_vars

(* C2 witness: a scan has returned after one send failed and another       *)
(* succeeded: the failed event is stored unflagged, the other flagged.     *)
C2_MixedBatchReturned ==
    /\ scan_pc = "idle"
    /\ scan_result.kind = "summary"
    /\ scan_result.sent >= 1
    /\ scan_result.sent < scan_result.processed
    /\ \E a, b \in DOMAIN events :
         /\ a \in errlog /\ outbox[a] = 0 /\ ~events[a].reminder_sent
         /\ outbox[b] = 1 /\ events[b].reminder_sent

(* C3, as claimed: an event whose send failed and that was never notified  *)
(* since is a candidate of every later scan.                               *)
C3_FailedStaysCandidate ==
    scan_pc = "loop" =>
        \A id \in errlog : outbox[id] = 0 => id \in Candidates

(* C3, amended: an event whose send failed keeps reminder_sent = false     *)
(* until a send for it succeeds, and every later scan whose window still   *)
(* holds its start_time (now - 10 <= start_time <= now + 60) selects it.   *)
C3_FailedRetriedWhileInWindow ==
    /\ \A id \in errlog : outbox[id] = 0 => ~events[id].reminder_sent
    /\ scan_pc = "loop" =>
         \A id \in errlog :
            ( /\ ~events[id].reminder_sent
              /\ events[id].start_time >= scan_now - 10
              /\ events[id].start_time <= scan_now + 60 ) => id \in Candidates

(* C3 witness: a new scan has just fetched an event whose send failed in   *)
(* an earlier scan.                                                        *)
C3_RetryFetched ==
    /\ scan_pc = "loop"
    /\ scan_i = 1
    /\ \E id \in errlog : outbox[id] = 0 /\ id \in Candidates

(* C4, as claimed: when a scan has returned, none of its candidates needs  *)
(* a reminder at the same instant, so a second scan run at once sends      *)
(* nothing for them.                                                       *)
C4_SecondRunSendsNothing ==
    [][ScanReturns =>
          \A id \in Candidates : ~NeedsReminder(events'[id], scan_now)]_vars

(* C4, amended: an event stored with reminder_sent = true is never         *)
(* selected and never notified by any scan; a second scan run at once      *)
(* after a first one selects, among the first one's candidates, exactly    *)
(* those whose send failed, and none of those it notified.                 *)
C4_RemindedNeverAgain ==
    [][/\ \A id \in DOMAIN events :
            events[id].reminder_sent =>
                /\ outbox'[id] = outbox[id]
                /\ (scan_pc = "idle" => id \notin Range(events_to_remind'))
       /\ ScanReturns =>
            \A id \in Candidates :
                ( /\ ~events'[id].reminder_sent
                  /\ events'[id].start_time >= scan_now - 10
                  /\ events'[id].start_time <= scan_now + 60 )
                <=> id \notin session_dirty]_vars

(* C4 witness: a scan runs while an event already stored as reminded is    *)
(* still inside its window.                                                *)
C4_RemindedEventInWindowOfScan ==
    /\ scan_pc = "loop"
    /\ \E id \in DOMAIN events :
         /\ events[id].reminder_sent
         /\ outbox[id] = 1
         /\ events[id].start_time >= scan_now - 10
         /\ events[id].start_time <= scan_now + 60

(* C5: the candidates a scan fetches at `now` are exactly the events, of   *)
(* any user, with now - 10 <= start_time <= now + 60 and reminder_sent     *)
(* false; no event outside that window is notified or flagged.             *)
C5_CandidateWindow ==
    [][/\ (scan_pc = "idle" /\ <<scan_pc, scan_result>>' # <<scan_pc, scan_result>>) =>
            Range(events_to_remind') =
                {id \in DOMAIN events :
                    /\ events[id].start_time >= now - 10
                    /\ events[id].start_time <= now + 60
                    /\ ~events[id].reminder_sent}
       /\ \A id \in DOMAIN events :
            (outbox'[id] > outbox[id] \/ (events'[id].reminder_sent /\ ~events[id].reminder_sent)) =>
                /\ events[id].start_time >= scan_now - 10
                /\ events[id].start_time <= scan_now + 60]_vars

(* C5 witness: a scan holds candidates of two users, one of them starting  *)
(* exactly 10 minutes before the scan's `now`.                             *)
C5_EdgeFetchedForTwoUsers ==
    /\ scan_pc = "loop"
    /\ \E a, b \in Candidates :
         /\ events[a].user_id # events[b].user_id
         /\ events[a].start_time = scan_now - 10

-----------------------------------------------------------------------------
(* Properties of the range query.                                          *)

(* The last request was a range query with two parseable bounds: it was    *)
(* answered with a list or ended in an exception.                          *)
RangeAnswered ==
    /\ response.req.op = "get_events"
    /\ response.kind \in {"list", "exception"}

WindowStart == query_start_dt(response.req.start).t
WindowEnd == query_end_dt(response.req.end).t

OwnIds == {id \in DOMAIN events : events[id].user_id = response.req.user}
Duration(e) == e.end_time - e.start_time

(* The series a daily rule describes: start k is k * INTERVAL days after   *)
(* the master's start, and COUNT, if given, bounds k.                      *)
SeriesIndex == 0..MaxDay
InSeries(e, k) ==
    /\ e.recurrence_rule.kind = "daily"
    /\ e.recurrence_rule.hasCount => k < e.recurrence_rule.count
SeriesStart(e, k) == e.start_time + k * e.recurrence_rule.interval * Day

ReturnedSingle(id) ==
    \E k \in DOMAIN response.items :
        response.items[k].id = id /\ ~response.items[k].is_occurrence
ReturnedOccurrence(id, start) ==
    \E k \in DOMAIN response.items :
        /\ response.items[k].id = id
        /\ response.items[k].is_occurrence
        /\ response.items[k].start_time.t = start

(* C6: a range query returns a non-recurring event of the requesting user  *)
(* if and only if the event strictly overlaps the window: start before the *)
(* window's end and end after the window's start.                          *)
C6_StrictOverlapReturned ==
    RangeAnswered =>
        \A id \in OwnIds :
            events[id].recurrence_rule.kind = "null" =>
                (ReturnedSingle(id) <=>
                    /\ events[id].start_time < WindowEnd
                    /\ events[id].end_time > WindowStart)

(* A non-recurring event that strictly overlaps the window is not returned *)
(* because the query ended in the ValueError of the final sort.            *)
C6_OverlappingEventLostToSort ==
    /\ RangeAnswered
    /\ response.kind = "exception"
    /\ response.exc = "ValueError"
    /\ \E id \in OwnIds :
          /\ events[id].recurrence_rule.kind = "null"
          /\ events[id].start_time < WindowEnd
          /\ events[id].end_time > WindowStart

(* C7: an occurrence of a recurring master that began before the window's  *)
(* start and is still running at it is returned by the range query.        *)
C7_RunningOccurrenceReturned ==
    RangeAnswered =>
        \A id \in OwnIds, k \in SeriesIndex :
            (/\ InSeries(events[id], k)
             /\ SeriesStart(events[id], k) < WindowStart
             /\ WindowStart < SeriesStart(events[id], k) + Duration(events[id]))
            => ReturnedOccurrence(id, SeriesStart(events[id], k))

(* The query returned a list, and an occurrence running at the window's    *)
(* start is not in it.                                                     *)
C7_RunningOccurrenceMissedInList ==
    /\ RangeAnswered
    /\ response.kind = "list"
    /\ \E id \in OwnIds, k \in SeriesIndex :
          /\ InSeries(events[id], k)
          /\ SeriesStart(events[id], k) < WindowStart
          /\ WindowStart < SeriesStart(events[id], k) + Duration(events[id])
          /\ ~ReturnedOccurrence(id, SeriesStart(events[id], k))

C9_CountCapsSeries ==
    RangeAnswered =>
        \A id \in OwnIds :
            (events[id].recurrence_rule.kind = "daily" /\ events[id].recurrence_rule.hasCount)
            => /\ \A n \in DOMAIN response.items :
                     (response.items[n].id = id /\ response.items[n].is_occurrence)
                     => \E k \in SeriesIndex :
                           /\ InSeries(events[id], k)
                           /\ response.items[n].start_time.t = SeriesStart(events[id], k)
               /\ \A k \in SeriesIndex :
                     (/\ InSeries(events[id], k)
                      /\ WindowStart <= SeriesStart(events[id], k)
                      /\ SeriesStart(events[id], k) < WindowEnd)
                     => ReturnedOccurrence(id, SeriesStart(events[id], k))

(* The window covers all N starts of a counted series, and the query ended *)
(* in the ValueError of the final sort.                                    *)
C9_WholeSeriesQueryRaises ==
    /\ RangeAnswered
    /\ response.kind = "exception"
    /\ response.exc = "ValueError"
    /\ \E id \in OwnIds :
          /\ events[id].recurrence_rule.kind = "daily"
          /\ events[id].recurrence_rule.hasCount
          /\ events[id].recurrence_rule.count = 3
          /\ \A k \in 0..2 :
                /\ WindowStart <= SeriesStart(events[id], k)
                /\ SeriesStart(events[id], k) < WindowEnd

(* C10: when both bounds are calendar dates D1 and D2, the window is from  *)
(* 00:00 of D1 to 23:59:59.999999 of D2, and the answer holds exactly the  *)
(* occurrences of the user's daily masters that start in it; the summary   *)
(* of a day is made of the same instances.                                 *)
C10_DateOnlyWindow ==
    (/\ response.req.op \in {"get_events", "get_event_summary"}
     /\ response.kind \in {"list", "exception", "summary", "no_events"}
     /\ response.req.start.kind = "date"
     /\ response.req.end.kind = "date")
    => /\ WindowStart = response.req.start.t
       /\ WindowEnd = response.req.end.t + EndOfDay
       /\ \A id \in OwnIds, k \in SeriesIndex :
             InSeries(events[id], k) =>
                 (ReturnedOccurrence(id, SeriesStart(events[id], k))
                  <=> /\ response.req.start.t <= SeriesStart(events[id], k)
                      /\ SeriesStart(events[id], k) <= response.req.end.t + EndOfDay)

(* Scenario A: a daily 10:00-11:00 master of three occurrences starting on *)
(* day 1 is queried for [day 2, day 2], and the query ends in ValueError.  *)
C10_ScenarioARaises ==
    /\ response.req.op = "get_events"
    /\ response.req.start = DateStr(2)
    /\ response.req.end = DateStr(2)
    /\ response.kind = "exception"
    /\ response.exc = "ValueError"
    /\ \E id \in OwnIds :
          /\ events[id].start_time = Day + 600
          /\ events[id].end_time = Day + 660
          /\ events[id].recurrence_rule = DailyCount(1, 3)

(* C11: a range query with a missing window bound is answered with status  *)
(* 400 and an error, never with 200.                                       *)
C11_MissingBoundRejected ==
    (/\ response.req.op = "get_events"
     /\ IsFalsyStr(response.req.start) \/ IsFalsyStr(response.req.end))
    => /\ response.status = 400
       /\ response.kind \notin {"list", "error_pair"}

(* A range query without its upper bound was answered 200, the body being  *)
(* the service's pair of error dict and 400.                               *)
C11_MissingBoundAnswered200 ==
    /\ response.req.op = "get_events"
    /\ IsFalsyStr(response.req.end)
    /\ ~IsFalsyStr(response.req.start)
    /\ response.status = 200
    /\ response.kind = "error_pair"
    /\ events # <<>>

(* The requester's masters whose rule text cannot be parsed.               *)
MalformedOwnIds == {id \in OwnIds : events[id].recurrence_rule.kind = "malformed"}

(* C12: a master with an unparseable rule that overlaps the window is      *)
(* returned as exactly one record with the master's own start and end, and *)
(* the query does not end in an error.                                     *)
C12_MalformedDegradesToSingle ==
    RangeAnswered =>
        \A id \in MalformedOwnIds :
            (events[id].start_time < WindowEnd /\ events[id].end_time > WindowStart)
            => /\ response.kind = "list"
               /\ Cardinality({n \in DOMAIN response.items : response.items[n].id = id}) = 1
               /\ \E n \in DOMAIN response.items :
                     /\ response.items[n].id = id
                     /\ ~response.items[n].is_occurrence
                     /\ response.items[n].start_time.t = events[id].start_time
                     /\ response.items[n].end_time.t = events[id].end_time

(* The store holds one event, a master with an unparseable rule that lies  *)
(* inside the window, and the query ended in TypeError.                    *)
C12_MalformedMasterRaises ==
    /\ RangeAnswered
    /\ response.kind = "exception"
    /\ response.exc = "TypeError"
    /\ DOMAIN events = {1}
    /\ MalformedOwnIds = {1}
    /\ events[1].start_time >= WindowStart
    /\ events[1].end_time <= WindowEnd

(* The store without the requester's malformed masters.                    *)
WithoutMalformed == [id \in (DOMAIN events) \ MalformedOwnIds |-> events[id]]

(* C13: with a malformed master among the requester's events the query     *)
(* still returns a sorted list, and the records of the other events in it  *)
(* are those the same query returns when the malformed master is not in    *)
(* the store.                                                              *)
C13_MalformedNeverAborts ==
    (RangeAnswered /\ MalformedOwnIds # {}) =>
        /\ response.kind = "list"
        /\ \A a, b \in DOMAIN response.items :
              a < b => response.items[a].start_time.t <= response.items[b].start_time.t
        /\ \E potential_events \in CallOrders(WithoutMalformed, response.req.user,
                                             response.req.start, response.req.end) :
              LET other == get_events_in_range(WithoutMalformed, potential_events,
                                               response.req.start, response.req.end)
                  NotMalformed(item) == item.id \notin MalformedOwnIds
              IN /\ other.kind = "list"
                 /\ SelectSeq(response.items, NotMalformed) = other.items

(* The requester owns a non-recurring event in the window and a malformed  *)
(* master; without the master the query returns the event, with it the     *)
(* query ends in TypeError.                                                *)
C13_OtherEventLostWithMalformed ==
    /\ RangeAnswered
    /\ response.kind = "exception"
    /\ response.exc = "TypeError"
    /\ MalformedOwnIds # {}
    /\ \E id \in OwnIds :
          /\ events[id].recurrence_rule.kind = "null"
          /\ events[id].start_time < WindowEnd
          /\ events[id].end_time > WindowStart
    /\ \A potential_events \in CallOrders(WithoutMalformed, response.req.user,
                                         response.req.start, response.req.end) :
          LET other == get_events_in_range(WithoutMalformed, potential_events,
                                           response.req.start, response.req.end)
          IN other.kind = "list" /\ other.items # <<>>

(* C14: a returned list is ordered by (resolved start, event id): starts   *)
(* ascend, and records with equal start appear in ascending id order.      *)
C14_OrderedByStartThenId ==
    (RangeAnswered /\ response.kind = "list") =>
        \A a, b \in DOMAIN response.items :
            a < b =>
                \/ response.items[a].start_time.t < response.items[b].start_time.t
                \/ /\ response.items[a].start_time.t = response.items[b].start_time.t
                   /\ response.items[a].id <= response.items[b].id

(* A returned list holds two records with the same start, the one with the *)
(* larger id first.                                                        *)
C14_EqualStartsInDescendingId ==
    /\ RangeAnswered
    /\ response.kind = "list"
    /\ Len(response.items) = 2
    /\ response.items[1].start_time.t = response.items[2].start_time.t
    /\ response.items[1].id > response.items[2].id

(* C15: a range query writes nothing to the store, and a range query that  *)
(* repeats the previous one against the unchanged store gets the same      *)
(* answer, in the same order.                                              *)
C15_RepeatedQuerySameAnswer ==
    [][/\ response'.req.op = "get_events" => events' = events
       /\ (/\ response.req.op = "get_events"
           /\ response'.req = response.req
           /\ events' = events)
          => response' = response]_vars

(* The last range query returned a list, and the same query against the    *)
(* same store can return another one.                                      *)
C15_SameQueryOtherAnswer ==
    /\ RangeAnswered
    /\ response.kind = "list"
    /\ \E potential_events \in CallOrders(events, response.req.user,
                                         response.req.start, response.req.end) :
          LET again == get_events_in_range(events, potential_events,
                                           response.req.start, response.req.end)
          IN /\ again.kind = "list"
             /\ again.items # response.items

-----------------------------------------------------------------------------
(* Properties of the event API under edits.                                *)

(* The records of the answer: those of a list, or the one of a single      *)
(* event.                                                                  *)
AnsweredRecords ==
    IF response.kind \in {"list", "event"} THEN Range(response.items) ELSE {}

DeleteSucceeds ==
    /\ response'.req.op = "delete_event"
    /\ response'.status = 200

(* C16: a successful DELETE removes the row of the event and no other, so  *)
(* the event is gone with all its occurrences: every record of a later     *)
(* answer carries the id of a row in the store, and GET of an id that has  *)
(* no row is answered not-found.  The id can come back with a new event.   *)
C16_DeletedEventGone ==
    /\ [](\A r \in AnsweredRecords : r.id \in DOMAIN events)
    /\ []((response.req.op = "get_event" /\ response.req.id \notin DOMAIN events)
            => response.status = 404)
    /\ [][DeleteSucceeds =>
            /\ response'.req.id \in DOMAIN events
            /\ DOMAIN events' = (DOMAIN events) \ {response'.req.id}
            /\ \A id \in DOMAIN events' : events'[id] = events[id]]_vars

(* An event was deleted and has no row, and a range query after that was   *)
(* answered with the records of what is left.                              *)
C16_QueryAfterDelete ==
    /\ \E id \in deleted : id \notin DOMAIN events
    /\ response.req.op = "get_events"
    /\ response.kind = "list"
    /\ response.items # <<>>

(* C16 as stated: once an id has been deleted, no later range query        *)
(* returns a record with that id, and GET of that id is answered           *)
(* not-found.                                                              *)
C16_DeletedIdNeverReturned ==
    \A id \in deleted :
        /\ response.req.op = "get_events" => \A r \in AnsweredRecords : r.id # id
        /\ (response.req.op = "get_event" /\ response.req.id = id) => response.status = 404

(* The masters a PUT has given a new rule and a new start: their row holds *)
(* the rule and the start of one of the bodies that set both.              *)
RuleChangedIds ==
    {id \in OwnIds :
        \E b \in EditBodies :
            /\ b.has_rule
            /\ IsTruthyRule(b.rule)
            /\ ~IsFalsyStr(b.start)
            /\ events[id].recurrence_rule = b.rule
            /\ events[id].start_time = parse_datetime(b.start).t}

(* C17: after an update has changed a master's rule and start, a range     *)
(* query returns for that master exactly the occurrences of the new rule   *)
(* anchored at the new start that begin in the window, each with           *)
(* series_start_time equal to the new start.                               *)
C17_NextQueryFollowsNewRule ==
    RangeAnswered =>
        \A id \in RuleChangedIds :
            /\ \A k \in SeriesIndex :
                  (/\ InSeries(events[id], k)
                   /\ WindowStart <= SeriesStart(events[id], k)
                   /\ SeriesStart(events[id], k) < WindowEnd)
                  => ReturnedOccurrence(id, SeriesStart(events[id], k))
            /\ \A n \in DOMAIN response.items :
                  response.items[n].id = id
                  => /\ response.items[n].is_occurrence
                     /\ response.items[n].series_start_time = IsoZ(Column(events[id].start_time))
                     /\ \E k \in SeriesIndex :
                           /\ InSeries(events[id], k)
                           /\ response.items[n].start_time.t = SeriesStart(events[id], k)

(* A master was given a new rule and start, the window of the next query   *)
(* holds an occurrence of the new series, and the query ended in the       *)
(* ValueError of the final sort.                                           *)
C17_QueryAfterRuleChangeRaises ==
    /\ RangeAnswered
    /\ response.kind = "exception"
    /\ response.exc = "ValueError"
    /\ \E id \in RuleChangedIds, k \in SeriesIndex :
          /\ InSeries(events[id], k)
          /\ WindowStart <= SeriesStart(events[id], k)
          /\ SeriesStart(events[id], k) < WindowEnd

CreateSucceeds ==
    /\ response'.req.op = "create_event"
    /\ response'.status = 201

UpdateSucceeds ==
    /\ response'.req.op = "update_event"
    /\ response'.status = 200

(* C18: the recurrence_rule submitted on create or update is stored as     *)
(* submitted (an update without the key keeps the stored one), a created   *)
(* row has parent_event_id null, no read changes a row, and every record   *)
(* of an answer (create or update response, single GET, range query)       *)
(* carries the rule of the row it was made from.                           *)
C18_RuleRoundTrip ==
    /\ [](\A r \in AnsweredRecords :
            /\ r.id \in DOMAIN events
            /\ r.recurrence_rule = events[r.id].recurrence_rule)
    /\ [][CreateSucceeds =>
            LET id == response'.items[1].id
            IN /\ id \notin DOMAIN events
               /\ id \in DOMAIN events'
               /\ events'[id].recurrence_rule = response'.req.rule
               /\ events'[id].parent_event_id = 0
               /\ response'.items[1].parent_event_id = 0]_vars
    /\ [][UpdateSucceeds =>
            LET id == response'.req.id
            IN /\ id \in DOMAIN events
               /\ id \in DOMAIN events'
               /\ events'[id].recurrence_rule =
                     IF response'.req.has_rule THEN response'.req.rule
                     ELSE events[id].recurrence_rule]_vars
    /\ [][response'.req.op \in {"get_event", "get_events"} => events' = events]_vars

(* A single GET returns the rule that a PUT submitted together with a new  *)
(* start.                                                                  *)
C18_SubmittedRuleReadBack ==
    /\ response.req.op = "get_event"
    /\ response.status = 200
    /\ \E b \in EditBodies :
          /\ b.has_rule
          /\ IsTruthyRule(b.rule)
          /\ ~IsFalsyStr(b.start)
          /\ response.items[1].recurrence_rule = b.rule
          /\ events[response.req.id].start_time = parse_datetime(b.start).t

(* The record of the occurrence of master id that starts at `start`, made  *)
(* from the master's row as it is stored at the time of the query.         *)
OccurrenceOfMaster(r, id, start) ==
    /\ r.id = id
    /\ r.is_occurrence
    /\ r.start_time.t = start
    /\ r.series_start_time = IsoZ(Column(events[id].start_time))
    /\ r.title = events[id].title
    /\ r.user_id = events[id].user_id
    /\ r.recurrence_rule = events[id].recurrence_rule

ForeignRequest ==
    /\ response'.req.op \in {"get_event", "update_event", "delete_event"}
    /\ response'.req.id \in DOMAIN events
    /\ events[response'.req.id].user_id # response'.req.user

(* C20: the records of a range query all belong to rows of the requesting  *)
(* user, and a GET, PUT or DELETE of another user's event is answered 404  *)
(* with no record and leaves the store as it was.                          *)
C20_OwnerIsolation ==
    /\ [](response.req.op = "get_events" =>
            \A r \in Range(response.items) :
                /\ r.user_id = response.req.user
                /\ r.id \in OwnIds)
    /\ [][ForeignRequest =>
            /\ response'.status = 404
            /\ response'.items = <<>>
            /\ events' = events]_vars

(* A DELETE of another user's event was answered 404 and the event is      *)
(* still stored.                                                           *)
C20_ForeignDeleteRefused ==
    /\ response.req.op = "delete_event"
    /\ response.status = 404
    /\ response.req.id \in DOMAIN events
    /\ events[response.req.id].user_id # response.req.user

(* The start and the end the row of a PUT would have once the body is      *)
(* applied: the parsed value of a key that is present, else the stored     *)
(* one.                                                                    *)
ResultingStart(req, e) ==
    IF IsFalsyStr(req.start) THEN e.start_time ELSE parse_datetime(req.start).t
ResultingEnd(req, e) ==
    IF IsFalsyStr(req.end) THEN e.end_time ELSE parse_datetime(req.end).t

(* The request answered next is a PUT by the owner whose times parse and   *)
(* whose resulting end is before its resulting start.                      *)
UpdateWouldInvert ==
    /\ response'.req.op = "update_event"
    /\ Owned(events, response'.req.user, response'.req.id)
    /\ IsFalsyStr(response'.req.start) \/ ~parse_datetime(response'.req.start).none
    /\ IsFalsyStr(response'.req.end) \/ ~parse_datetime(response'.req.end).none
    /\ ResultingEnd(response'.req, events[response'.req.id])
          < ResultingStart(response'.req, events[response'.req.id])

(* The request answered next is a POST with a title whose times parse and  *)
(* whose end is before its start.                                          *)
CreateWouldInvert ==
    /\ response'.req.op = "create_event"
    /\ response'.req.title # ""
    /\ ~IsFalsyStr(response'.req.start) /\ ~parse_datetime(response'.req.start).none
    /\ ~IsFalsyStr(response'.req.end) /\ ~parse_datetime(response'.req.end).none
    /\ parse_datetime(response'.req.end).t < parse_datetime(response'.req.start).t

(* C21: every stored event has end_time >= start_time, and a create or an  *)
(* update whose resulting end would be before its start is answered 400    *)
(* 'End time cannot be before start time', also when the update carries    *)
(* only one of the two bounds.                                             *)
C21_EndNotBeforeStart ==
    /\ [](\A id \in DOMAIN events : events[id].end_time >= events[id].start_time)
    /\ [][(UpdateWouldInvert \/ CreateWouldInvert) =>
            /\ response'.status = 400
            /\ response'.kind = "end_before_start"
            /\ events' = events]_vars

(* A PUT carried only a start_time with 'Z', later than the stored end,    *)
(* and was answered 500 for the TypeError of the comparison.               *)
C21_OneSidedUpdateRaises ==
    /\ response.req.op = "update_event"
    /\ response.status = 500
    /\ response.exc = "TypeError"
    /\ response.req.start.kind = "utc"
    /\ IsFalsyStr(response.req.end)
    /\ response.req.id \in DOMAIN events
    /\ events[response.req.id].end_time < response.req.start.t

-----------------------------------------------------------------------------
(* Further properties of the range query.                                  *)

(* The occurrence records the loop of get_events_in_range makes for the    *)
(* masters of the requesting user and the window of the request (lines     *)
(* 171-191), whether or not the final sort lets them out.                  *)
ComputedOccurrences ==
    UNION {Range(ExpandOccurrences(id, events[id],
                                   query_start_dt(response.req.start),
                                   query_end_dt(response.req.end))) :
              id \in {i \in OwnIds : events[i].recurrence_rule.kind = "daily"}}

ReturnedOccurrences == {r \in Range(response.items) : r.is_occurrence}

(* C22: every occurrence made or returned for a recurring master strictly  *)
(* overlaps the window of the request: its start is before the window's    *)
(* end and its end is after the window's start; an occurrence whose end is *)
(* exactly the window's start is not among them.                           *)
C22_OccurrencesStrictlyOverlap ==
    RangeAnswered =>
        /\ \A r \in ComputedOccurrences \cup ReturnedOccurrences :
              /\ r.start_time.t < WindowEnd
              /\ r.end_time.t > WindowStart
        /\ \A id \in OwnIds, k \in SeriesIndex :
              (/\ InSeries(events[id], k)
               /\ SeriesStart(events[id], k) + Duration(events[id]) = WindowStart)
              => \A r \in ComputedOccurrences \cup ReturnedOccurrences :
                    ~(r.id = id /\ r.start_time.t = SeriesStart(events[id], k))

(* The window of a query starts at the instant an occurrence ends, the     *)
(* query was answered with a list, and the occurrence is not in it.        *)
C22_TouchingOccurrenceExcluded ==
    /\ RangeAnswered
    /\ response.kind = "list"
    /\ \E id \in OwnIds, k \in SeriesIndex :
          /\ InSeries(events[id], k)
          /\ SeriesStart(events[id], k) + Duration(events[id]) = WindowStart
          /\ ~ReturnedOccurrence(id, SeriesStart(events[id], k))

-----------------------------------------------------------------------------
(* Properties of two scans run at the same time.                           *)

(* The steps in which the first and the second process fetch candidates.   *)
FirstFetches == scan_pc = "idle" /\ scan_pc' = "loop"
SecondFetches == second.pc = "idle" /\ second'.pc = "loop"

(* C23: nothing keeps two scans from holding the same candidate.  A scan   *)
(* fetches only events stored with reminder_sent = false, and stores its   *)
(* flags only when it returns, so an event is notified at most once by     *)
(* each of the two processes, and it is notified a second time only by a   *)
(* process that holds it as a candidate while the first notification is    *)
(* pending in the other session or already stored.                         *)
C23_DuplicateOnlyByOverlap ==
    /\ [](\A id \in EventIds : outbox[id] <= 2)
    /\ [][/\ FirstFetches =>
                \A id \in Range(events_to_remind') : ~events[id].reminder_sent
          /\ SecondFetches =>
                \A id \in Range(second'.events_to_remind) : ~events[id].reminder_sent
          /\ \A id \in EventIds :
                (outbox[id] = 1 /\ outbox'[id] = 2)
                => \/ /\ scan_pc = "loop"
                      /\ id \in Range(events_to_remind)
                      /\ id \in session_dirty' \ session_dirty
                      /\ id \in second.session_dirty \/ events[id].reminder_sent
                   \/ /\ second.pc = "loop"
                      /\ id \in Range(second.events_to_remind)
                      /\ id \in second'.session_dirty \ second.session_dirty
                      /\ id \in session_dirty \/ events[id].reminder_sent]_vars

(* Both processes fetched the same event before either stored the flag,    *)
(* and both have sent its reminder: it was notified twice.                 *)
C23_NotifiedTwiceByTwoScans ==
    \E id \in DOMAIN events :
        /\ outbox[id] = 2
        /\ ~events[id].reminder_sent
        /\ scan_pc = "loop" /\ id \in session_dirty
        /\ second.pc = "loop" /\ id \in second.session_dirty

-----------------------------------------------------------------------------
(* Properties of the reminder scan over recurring and rescheduled events.  *)

Masters == {id \in DOMAIN events : events[id].recurrence_rule.kind = "daily"}

(* An occurrence after the first of master id starts in the window of a    *)
(* scan run at n.                                                          *)
LaterOccurrenceInWindow(id, n) ==
    \E k \in SeriesIndex :
        /\ k >= 1
        /\ InSeries(events[id], k)
        /\ SeriesStart(events[id], k) >= reminder_window_start(n)
        /\ SeriesStart(events[id], k) <= reminder_window_end(n)

(* The scan looks at the master's own start_time only, and a master stored *)
(* as reminded gets no further reminder, whatever occurrence is due.       *)
MasterStartOnly ==
    /\ FirstFetches => Range(events_to_remind') = CandidateIds(events, now)
    /\ \A id \in DOMAIN events :
          outbox'[id] > outbox[id]
          => /\ scan_pc = "loop"
             /\ id = events_to_remind[scan_i]
             /\ ~events[id].reminder_sent
    /\ ScanReturns => \A id \in session_dirty : events'[id].reminder_sent

(* C24 as stated: the scan considers only the master's own start_time, a   *)
(* series gets at most one reminder in total, and a master stored as       *)
(* reminded is never notified again.                                       *)
C24_SeriesRemindedOnce ==
    /\ [](\A id \in Masters : outbox[id] <= 1)
    /\ [][MasterStartOnly]_vars

(* C24, amended: the scan considers only the master's own start_time; a    *)
(* reminder goes only to a fetched candidate stored as not reminded; a     *)
(* scan that returns stores the flag of every master it notified, and a    *)
(* master stored as reminded is not notified again.  A scan interrupted    *)
(* before its commit leaves the flag false, so the series can get a        *)
(* reminder again.                                                         *)
C24_MasterStartOnlyAndFlagSuppresses ==
    /\ [](\A id \in Masters : events[id].reminder_sent => outbox[id] >= 1)
    /\ [][MasterStartOnly]_vars

(* A scan runs on day 1 while the occurrence of day 1 of a master reminded *)
(* on day 0 starts in its window, and the master is not a candidate.       *)
C24_LaterOccurrenceNotFetched ==
    /\ scan_pc = "loop"
    /\ \E id \in Masters :
          /\ events[id].reminder_sent
          /\ outbox[id] = 1
          /\ LaterOccurrenceInWindow(id, scan_now)
          /\ id \notin Range(events_to_remind)

(* C25: a created row has reminder_sent = false; the flag of a row becomes *)
(* true only in the commit of a scan that sent the row's reminder; no      *)
(* step (scan, range query, PUT, also one that moves start_time) takes a   *)
(* stored true back to false; and a row stored as reminded gets no         *)
(* further reminder.                                                       *)
C25_ReminderSentMonotonic ==
    [][/\ (CreateSucceeds /\ response'.items[1].id \notin DOMAIN events) =>
            /\ ~events'[response'.items[1].id].reminder_sent
            /\ ~response'.items[1].reminder_sent
       /\ \A id \in DOMAIN events :
            /\ events[id].reminder_sent
               => /\ id \in DOMAIN events'
                  /\ events'[id].reminder_sent
                  /\ outbox'[id] = outbox[id]
            /\ (~events[id].reminder_sent /\ id \in DOMAIN events' /\ events'[id].reminder_sent)
               => /\ ScanReturns
                  /\ id \in session_dirty
                  /\ outbox[id] >= 1]_vars

(* An event moved by a PUT to day 1 is stored as reminded, and a scan run  *)
(* on day 1, with the event's new start in its window, has not fetched it. *)
C25_RescheduledNotFetchedAgain ==
    /\ scan_pc = "loop"
    /\ response.req.op = "update_event"
    /\ response.status = 200
    /\ response.req.id \in DOMAIN events
    /\ LET id == response.req.id
       IN /\ events[id].reminder_sent
          /\ outbox[id] = 1
          /\ events[id].start_time = parse_datetime(MoveBody.start).t
          /\ events[id].recurrence_rule.kind = "daily"
          /\ NeedsReminderAnyFlag(events[id], scan_now)
          /\ id \notin Range(events_to_remind)

-----------------------------------------------------------------------------
(* Properties of the range query: empty rules, bounds with a time of day,  *)
(* unbounded series.                                                       *)

(* The events of the requesting user whose rule is None or ''.             *)
RulelessOwnIds == {id \in OwnIds : events[id].recurrence_rule.kind \in {"null", "empty"}}

RecordsOf(id) == {k \in DOMAIN response.items : response.items[k].id = id}

(* C26: in the list a range query returns, an event whose rule is None or  *)
(* '' appears at most once, as a record that is not an occurrence, and     *)
(* only if its own interval overlaps the window.                           *)
C26_EmptyRuleIsNonRecurring ==
    (RangeAnswered /\ response.kind = "list") =>
        \A id \in RulelessOwnIds :
            /\ Cardinality(RecordsOf(id)) <= 1
            /\ \A k \in RecordsOf(id) :
                  /\ ~response.items[k].is_occurrence
                  /\ events[id].start_time <= WindowEnd
                  /\ events[id].end_time >= WindowStart

(* The list holds the record of an event with rule '' that ended before    *)
(* the window began.                                                       *)
C26_EmptyRuleReturnedOutsideWindow ==
    /\ RangeAnswered
    /\ response.kind = "list"
    /\ \E id \in RulelessOwnIds :
          /\ events[id].recurrence_rule.kind = "empty"
          /\ events[id].end_time < WindowStart
          /\ ReturnedSingle(id)

(* C27: an upper bound given with a time of day, with or without a         *)
(* designator, is used as that instant: no event that starts after it is   *)
(* returned; only a bound that is a calendar date is moved to the end of   *)
(* its day.                                                                *)
C27_TimedEndIsExact ==
    RangeAnswered =>
        /\ response.req.end.kind \in {"naive", "utc"}
           => /\ WindowEnd = response.req.end.t
              /\ \A id \in OwnIds :
                    ReturnedSingle(id) => events[id].start_time <= response.req.end.t
        /\ response.req.end.kind = "date"
           => WindowEnd = response.req.end.t + EndOfDay

(* The upper bound had a time of day and no designator, and the list holds *)
(* an event that starts after it, on the same day.                         *)
C27_NaiveTimedEndMovedToEndOfDay ==
    /\ RangeAnswered
    /\ response.kind = "list"
    /\ response.req.end.kind = "naive"
    /\ \E id \in OwnIds :
          /\ ReturnedSingle(id)
          /\ events[id].recurrence_rule.kind = "null"
          /\ events[id].start_time > response.req.end.t
          /\ events[id].start_time <= EndOfDayOf(response.req.end.t)

-----------------------------------------------------------------------------
(* Properties of the value send_event_reminders returns.                   *)

(* The step of a scan that found no candidate and returned at once.        *)
ScanFindsNothing ==
    /\ scan_pc = "idle"
    /\ scan_pc' = "idle"
    /\ scan_result' # scan_result
    /\ scan_result'.kind = "none"

(* The rows whose reminder_sent the step sets.                             *)
FlaggedByStep ==
    {id \in DOMAIN events : ~events[id].reminder_sent /\ events'[id].reminder_sent}

(* C28: the summary a scan returns counts as processed the candidates it   *)
(* fetched and as sent those whose send succeeded, which are the events    *)
(* whose reminder_sent the scan sets, never more than the processed ones;  *)
(* a scan with candidates never reports that there are none, and a scan    *)
(* without candidates reports it and sends and stores nothing.             *)
C28_SummaryCounts ==
    [][/\ ScanReturns =>
            /\ scan_result'.processed = Len(events_to_remind)
            /\ scan_result'.processed = Cardinality(Range(events_to_remind))
            /\ scan_result'.processed >= 1
            /\ scan_result'.sent = Cardinality(session_dirty)
            /\ scan_result'.sent = Cardinality(FlaggedByStep)
            /\ FlaggedByStep = session_dirty
            /\ scan_result'.sent <= scan_result'.processed
       /\ ScanFindsNothing =>
            /\ CandidateIds(events, now) = {}
            /\ events' = events
            /\ outbox' = outbox
       /\ FirstFetches => CandidateIds(events, now) # {}]_vars

(* A scan of two candidates, one send failed and one succeeded, returned   *)
(* 'Processed 2 events. Sent 1 reminders.' and one event is stored as      *)
(* reminded.                                                               *)
C28_TwoProcessedOneSent ==
    /\ scan_pc = "idle"
    /\ scan_result = Summary(2, 1)
    /\ Cardinality({id \in DOMAIN events : events[id].reminder_sent}) = 1
    /\ TotalMails = 1

-----------------------------------------------------------------------------
(* Properties of rejected writes.                                          *)

(* The request answered next is a POST or a PUT and the answer is 400.     *)
WriteRejected ==
    /\ response'.req.op \in {"create_event", "update_event"}
    /\ response'.status = 400

(* C29: a create or an update answered 400, for a missing required field,  *)
(* an unparseable start or end, or an end before the start, leaves the     *)
(* store as it was: no row is added, and the row the update names keeps    *)
(* every column, also when the body carried a valid new title or start.    *)
C29_RejectedWriteChangesNothing ==
    [][WriteRejected =>
         /\ response'.kind \in {"missing_field", "invalid_datetime", "invalid_start",
                                "invalid_end", "end_before_start"}
         /\ events' = events]_vars

(* A PUT by the owner carried the new title 'b' and a start that parses    *)
(* together with an unparseable end; it was answered 400 and the row still *)
(* has its title 'a' and its start on day 1.                               *)
C29_RejectedUpdateKeptTitleAndStart ==
    /\ response.req.op = "update_event"
    /\ response.status = 400
    /\ response.kind = "invalid_end"
    /\ response.req.title = "b"
    /\ response.req.id \in DOMAIN events
    /\ Owned(events, response.req.user, response.req.id)
    /\ events[response.req.id].title = "a"
    /\ events[response.req.id].start_time = Day + 600

-----------------------------------------------------------------------------
(* Properties of the range query over a series without COUNT and UNTIL.    *)

(* The masters of the asking user whose daily rule has no COUNT.           *)
UnboundedOwnIds ==
    {id \in OwnIds : /\ events[id].recurrence_rule.kind = "daily"
                     /\ ~events[id].recurrence_rule.hasCount}

(* The instants rule.between yields for a master over the window of the    *)
(* request, and the occurrence records the loop makes of them.             *)
MaterializedStarts(id) ==
    between(events[id].recurrence_rule, events[id].start_time, WindowStart, WindowEnd)
MaterializedRecords(id) ==
    Range(ExpandOccurrences(id, events[id], query_start_dt(response.req.start),
                            query_end_dt(response.req.end)))
    \cup {r \in ReturnedOccurrences : r.id = id}

====
